---- MODULE Spec2Model ----
(***************************************************************************)
(* Model of packages/check-favicon/src/helper.ts: the icon outcome         *)
(* classifier checkIcon and the helpers it calls.                          *)
(*                                                                         *)
(* Encoding of TypeScript values:                                          *)
(*   - an optional / nullable value is a sequence of length 0 or 1         *)
(*     (None is undefined or null, Some(x) is the value x);                *)
(*   - a JavaScript string that the code inspects is a sequence of         *)
(*     one-character strings; opaque strings are TLA+ strings;             *)
(*   - a Buffer / Uint8Array is a sequence of bytes 0..255.                *)
(***************************************************************************)
EXTENDS Integers, Sequences, FiniteSets, TLC

(* ------------------------------ bounds --------------------------------- *)

\* largest width / height the image-metadata decoder reports in the model
MaxDim == 2
\* largest number of chunks a byte stream delivers before it ends or errors
MaxChunks == 2

(* --------------------------- value encoding ---------------------------- *)

None == <<>>
Some(x) == <<x>>
IsSome(o) == Len(o) = 1
Val(o) == o[1]

\* JavaScript truthiness of an optional number: undefined, null and 0 are falsy
TruthyNum(o) == IsSome(o) /\ Val(o) # 0
\* JavaScript truthiness of an optional string held as a character sequence
TruthyChars(o) == IsSome(o) /\ Len(Val(o)) > 0
\* JavaScript truthiness of an optional opaque string
TruthyStr(o) == IsSome(o) /\ Val(o) # ""

(* ------------------------------ inputs --------------------------------- *)

\* the concurrent invocations of checkIcon the model distinguishes
Procs == {1, 2}

\* iconUrl: undefined, "", "a.png", "f.ICO", "ico", "b.c.svg"
IconUrls ==
  { None,
    Some(<<>>),
    Some(<<"a", ".", "p", "n", "g">>),
    Some(<<"f", ".", "I", "C", "O">>),
    Some(<<"i", "c", "o">>),
    Some(<<"b", ".", "c", ".", "s", "v", "g">>) }

\* mimeType argument of checkIcon
MimeTypes == { None, Some("image/png") }

\* expectedWidthHeight argument of checkIcon: not given, or any number
ExpectedSizes == { None } \cup { Some(n) : n \in 0..MaxDim }

\* HTTP status codes a Fetcher reports
Statuses == { 0, 199, 200, 299, 300, 403, 404, 405, 500 }

\* FetchResponse.contentType: null, "" or a declared type
ContentTypes == { None, Some(""), Some("text/html") }

\* chunks a stream delivers: an empty one, one byte, two bytes
ChunkValues == { <<>>, <<77>>, <<97, 110>> }

RECURSIVE SeqsUpTo(_, _)
SeqsUpTo(S, n) ==
  IF n = 0 THEN { <<>> }
  ELSE LET shorter == SeqsUpTo(S, n - 1)
       IN  shorter \cup { Append(s, x) : s \in { t \in shorter : Len(t) = n - 1 }, x \in S }

\* FetchResponse.readableStream: undefined, null, or a stream that delivers
\* `items` and then either ends or errors
NoStream(tag) == [tag |-> tag, items |-> <<>>, fails |-> FALSE]
ReadableStreams ==
  { NoStream("undefined"), NoStream("null") }
  \cup { [tag |-> "stream", items |-> s, fails |-> f] :
           s \in SeqsUpTo(ChunkValues, MaxChunks), f \in BOOLEAN }

FetchResponses ==
  [status : Statuses, contentType : ContentTypes, readableStream : ReadableStreams]

\* sharp(...).metadata(): width and height are each a positive number or undefined
Dims == { None } \cup { Some(n) : n \in 1..MaxDim }
Metadatas == [width : Dims, height : Dims]
NoMeta == [width |-> None, height |-> None]

\* what the decoder does with a buffer: it rejects, or resolves with metadata
DecoderOutcomes ==
  { [ok |-> FALSE, meta |-> NoMeta] } \cup { [ok |-> TRUE, meta |-> m] : m \in Metadatas }

(* --------------------------- pure helpers ------------------------------ *)

\* variant of ConcatChunks that writes every chunk at offset 0
RECURSIVE ConcatChunks_OffsetZero(_)
ConcatChunks_OffsetZero(cs) ==
  IF Len(cs) = 0 THEN <<>>
  ELSE LET rest == ConcatChunks_OffsetZero(Tail(cs))
           total == Len(Head(cs)) + Len(rest)
       IN  [ i \in 1..total |->
               IF i <= Len(Head(cs)) THEN Head(cs)[i]
               ELSE IF i <= Len(rest) THEN rest[i] ELSE 0 ]

\* chunks.reduce + concatenatedChunks.set(chunk, offset): the chunks laid
\* end to end in array order
RECURSIVE ConcatChunks(_)
ConcatChunks(cs) ==
  IF Len(cs) = 0 THEN <<>> ELSE Head(cs) \o ConcatChunks(Tail(cs))

\* path.split('.').pop(): the characters after the last '.', the whole
\* path when it has no '.'
LastSegment(path) ==
  LET dots == { i \in 1..Len(path) : path[i] = "." }
      last == IF dots = {} THEN 0 ELSE CHOOSE i \in dots : \A j \in dots : j <= i
  IN  SubSeq(path, last + 1, Len(path))

pathToMimeType(path) ==
  LET ext == LastSegment(path)
  IN  CASE ext = <<"p", "n", "g">> -> "image/png"
        [] ext = <<"s", "v", "g">> -> "image/svg+xml"
        [] ext = <<"i", "c", "o">> -> "image/x-icon"
        [] ext = <<"j", "p", "g">> -> "image/jpeg"
        [] ext = <<"j", "p", "e", "g">> -> "image/jpeg"
        [] OTHER -> "application/octet-stream"

Base64Alphabet ==
  << "A", "B", "C", "D", "E", "F", "G", "H", "I", "J", "K", "L", "M",
     "N", "O", "P", "Q", "R", "S", "T", "U", "V", "W", "X", "Y", "Z",
     "a", "b", "c", "d", "e", "f", "g", "h", "i", "j", "k", "l", "m",
     "n", "o", "p", "q", "r", "s", "t", "u", "v", "w", "x", "y", "z",
     "0", "1", "2", "3", "4", "5", "6", "7", "8", "9", "+", "/" >>

B64(n) == Base64Alphabet[n + 1]

\* buffer.toString('base64'): three bytes to four characters, '=' padding
RECURSIVE Base64(_)
Base64(b) ==
  CASE Len(b) = 0 -> <<>>
    [] Len(b) = 1 ->
         << B64(b[1] \div 4), B64((b[1] % 4) * 16), "=", "=" >>
    [] Len(b) = 2 ->
         << B64(b[1] \div 4), B64((b[1] % 4) * 16 + b[2] \div 16),
            B64((b[2] % 16) * 4), "=" >>
    [] OTHER ->
         << B64(b[1] \div 4), B64((b[1] % 4) * 16 + b[2] \div 16),
            B64((b[2] % 16) * 4 + b[3] \div 64), B64(b[3] % 64) >>
         \o Base64(SubSeq(b, 4, Len(b)))

\* `data:${mimeType};base64,${buffer.toString('base64')}`
bufferToDataUrl(buffer, mimeType) ==
  << "data:", mimeType, ";base64,", Base64(buffer) >>

(* ------------------------------- state --------------------------------- *)

VARIABLES
  pc,                   \* where each invocation of checkIcon stands
  iconUrl,              \* argument iconUrl
  mimeType,             \* argument mimeType
  expectedWidthHeight,  \* argument expectedWidthHeight
  events,               \* calls received by the invocation's processor, in order
  fetchCalls,           \* calls received by the invocation's fetcher, in order
  res,                  \* the FetchResponse the fetcher resolved with, once it has
  readCount,            \* reads of the stream's reader that have resolved
  chunks,               \* readableStreamToBuffer: the chunks array
  rawContent,           \* the drained buffer
  decoder,              \* the outcome of the pending sharp(rawContent).metadata()
  meta,                 \* the decoded metadata
  content,              \* the data URL
  result,               \* how the invocation ended: its return value or a throw
  merge,                \* a call of mergeUrlAndPath: its arguments and its outcome
  sizes,                \* a call of parseSizesAttribute: its argument and its outcome
  report,               \* a FaviconReport: the messages of its three sections
  verdict               \* the last answers of reportHasErrors and reportHasWarnings

vars == << pc, iconUrl, mimeType, expectedWidthHeight, events, fetchCalls, res,
           readCount, chunks, rawContent, decoder, meta, content, result,
           merge, sizes, report, verdict >>

\* the state outside checkIcon
others == << merge, sizes, report, verdict >>

\* the state of the invocations of checkIcon
checkIconVars ==
  << pc, iconUrl, mimeType, expectedWidthHeight, events, fetchCalls, res,
     readCount, chunks, rawContent, decoder, meta, content, result >>

\* the outcome of a call: not made yet, a returned value, or a throw
NotCalled == [kind |-> "pending", value |-> None]
Returns(v) == [kind |-> "return", value |-> Some(v)]
ReturnsNull == [kind |-> "return", value |-> None]
Throws == [kind |-> "throw", value |-> None]

NoMerge == [baseUrl |-> <<>>, path |-> <<>>, out |-> NotCalled]
NoSizes == [sizes |-> None, out |-> NotCalled]
EmptyReport == [desktop |-> <<>>, touchIcon |-> <<>>, webAppManifest |-> <<>>]
NoVerdict == [asked |-> FALSE, hasErrors |-> FALSE, hasWarnings |-> FALSE]

Event(name, args) == [name |-> name, args |-> args]

\* the promise of checkIcon: pending, fulfilled with null, fulfilled with a
\* CheckIconOutput, or rejected
Pending == [kind |-> "pending", content |-> None, url |-> None, width |-> None, height |-> None]
ReturnNull == [kind |-> "null", content |-> None, url |-> None, width |-> None, height |-> None]
Thrown == [kind |-> "throw", content |-> None, url |-> None, width |-> None, height |-> None]
Output(c, u, w, h) == [kind |-> "output", content |-> c, url |-> u, width |-> w, height |-> h]

\* no invocation of checkIcon has been made
NoInvocation ==
  /\ pc = [p \in Procs |-> "idle"]
  /\ iconUrl = [p \in Procs |-> None]
  /\ mimeType = [p \in Procs |-> None]
  /\ expectedWidthHeight = [p \in Procs |-> None]
  /\ events = [p \in Procs |-> <<>>]
  /\ fetchCalls = [p \in Procs |-> <<>>]
  /\ res = [p \in Procs |-> None]
  /\ readCount = [p \in Procs |-> 0]
  /\ chunks = [p \in Procs |-> <<>>]
  /\ rawContent = [p \in Procs |-> <<>>]
  /\ decoder = [p \in Procs |-> None]
  /\ meta = [p \in Procs |-> NoMeta]
  /\ content = [p \in Procs |-> None]
  /\ result = [p \in Procs |-> Pending]

Init ==
  /\ NoInvocation
  /\ merge = NoMerge
  /\ sizes = NoSizes
  /\ report = EmptyReport
  /\ verdict = NoVerdict

(* ------------------------ checkIcon: decisions ------------------------- *)

\* variant of NoHref that tests only for undefined
NoHref_UndefinedOnly(u) == ~IsSome(u)

\* `if (!iconUrl)`
NoHref(u) == ~TruthyChars(u)

\* variant of ResponseBranch that tests `status >= 300` before `status === 404`
ResponseBranch_GeneralFirst(r) ==
  CASE r.status >= 300 -> "cannotGet"
    [] r.status < 300 /\ r.readableStream.tag = "stream" -> "downloadable"
    [] OTHER -> "noBody"

\* variant of ResponseBranch whose error test is `status >= 400`
ResponseBranch_From400(r) ==
  CASE r.status = 404 -> "icon404"
    [] r.status # 404 /\ r.status >= 400 -> "cannotGet"
    [] r.status # 404 /\ r.status < 400 /\ r.readableStream.tag = "stream" -> "downloadable"
    [] OTHER -> "noBody"

\* variant of ResponseBranch that does not test for the stream
ResponseBranch_NoStreamTest(r) ==
  CASE r.status = 404 -> "icon404"
    [] r.status # 404 /\ r.status >= 300 -> "cannotGet"
    [] OTHER -> "downloadable"

\* variant of ResponseBranch whose error test is `status > 300`
ResponseBranch_Above300(r) ==
  CASE r.status = 404 -> "icon404"
    [] r.status # 404 /\ r.status > 300 -> "cannotGet"
    [] r.status # 404 /\ r.status <= 300 /\ r.readableStream.tag = "stream" -> "downloadable"
    [] OTHER -> "noBody"

\* the if / else-if chain over the fetch response
ResponseBranch(r) ==
  CASE r.status = 404 -> "icon404"
    [] r.status # 404 /\ r.status >= 300 -> "cannotGet"
    [] r.status # 404 /\ r.status < 300 /\ r.readableStream.tag = "stream" -> "downloadable"
    [] OTHER -> "noBody"

\* variant of ShapeEvents with the width / height comparison inverted
ShapeEvents_Inverted(m, expected) ==
  IF TruthyNum(m.width) /\ TruthyNum(m.height)
  THEN IF Val(m.width) = Val(m.height)
       THEN << Event("notSquare", << Val(m.width), Val(m.height) >>) >>
       ELSE << Event("square", << Val(m.width) >>) >>
  ELSE <<>>

\* variant of ShapeEvents that reports the height twice
ShapeEvents_HeightTwice(m, expected) ==
  IF TruthyNum(m.width) /\ TruthyNum(m.height)
  THEN IF Val(m.width) # Val(m.height)
       THEN << Event("notSquare", << Val(m.height), Val(m.height) >>) >>
       ELSE << Event("square", << Val(m.width) >>) >>
            \o ( IF TruthyNum(expected)
                 THEN IF Val(m.width) = Val(expected)
                      THEN << Event("rightSize", << Val(m.width) >>) >>
                      ELSE << Event("wrongSize", << Val(m.width) >>) >>
                 ELSE <<>> )
  ELSE <<>>

\* variant of ShapeEvents that reports the size verdict before square
ShapeEvents_VerdictFirst(m, expected) ==
  IF TruthyNum(m.width) /\ TruthyNum(m.height)
  THEN IF Val(m.width) # Val(m.height)
       THEN << Event("notSquare", << Val(m.width), Val(m.height) >>) >>
       ELSE ( IF TruthyNum(expected)
              THEN IF Val(m.width) = Val(expected)
                   THEN << Event("rightSize", << Val(m.width) >>) >>
                   ELSE << Event("wrongSize", << Val(m.width) >>) >>
              ELSE <<>> )
            \o << Event("square", << Val(m.width) >>) >>
  ELSE <<>>

\* the events the processor receives once the metadata is known
ShapeEvents(m, expected) ==
  IF TruthyNum(m.width) /\ TruthyNum(m.height)
  THEN IF Val(m.width) # Val(m.height)
       THEN << Event("notSquare", << Val(m.width), Val(m.height) >>) >>
       ELSE << Event("square", << Val(m.width) >>) >>
            \o ( IF TruthyNum(expected)
                 THEN IF Val(m.width) = Val(expected)
                      THEN << Event("rightSize", << Val(m.width) >>) >>
                      ELSE << Event("wrongSize", << Val(m.width) >>) >>
                 ELSE <<>> )
  ELSE <<>>

\* variant of OrNull that turns a decoded dimension into 0
OrNull_Zero(o) == IF IsSome(o) THEN Some(0) ELSE None

\* `meta.width || null`
OrNull(o) == IF TruthyNum(o) THEN o ELSE None

\* variant of EffectiveContentType that prefers the type inferred from the URL
EffectiveContentType_PathFirst(r, u) ==
  IF pathToMimeType(Val(u)) # "application/octet-stream"
  THEN pathToMimeType(Val(u))
  ELSE IF TruthyStr(r.contentType) THEN Val(r.contentType) ELSE "application/octet-stream"

\* `res.contentType || pathToMimeType(iconUrl)`
EffectiveContentType(r, u) ==
  IF TruthyStr(r.contentType) THEN Val(r.contentType) ELSE pathToMimeType(Val(u))

\* variant of NoContentOutput that returns no url
NoContentOutput_NoUrl(u) == Output(None, None, None, None)

\* the object returned after the if / else-if chain
NoContentOutput(u) == Output(None, u, None, None)

(* ------------------------- checkIcon: the steps ------------------------ *)

\* the call of checkIcon up to its first await
CheckIconCall(p) ==
  /\ pc[p] = "idle"
  /\ \E u \in IconUrls, m \in MimeTypes, e \in ExpectedSizes :
       /\ iconUrl' = [iconUrl EXCEPT ![p] = u]
       /\ mimeType' = [mimeType EXCEPT ![p] = m]
       /\ expectedWidthHeight' = [expectedWidthHeight EXCEPT ![p] = e]
       /\ IF NoHref(u)
          THEN /\ events' = [events EXCEPT ![p] = Append(@, Event("noHref", <<>>))]
               /\ result' = [result EXCEPT ![p] = ReturnNull]
               /\ pc' = [pc EXCEPT ![p] = "done"]
               /\ UNCHANGED fetchCalls
          ELSE /\ fetchCalls' = [fetchCalls EXCEPT ![p] = Append(@, << u, m >>)]
               /\ pc' = [pc EXCEPT ![p] = "awaitFetch"]
               /\ UNCHANGED << events, result >>
  /\ UNCHANGED << res, readCount, chunks, rawContent, decoder, meta, content >>
  /\ UNCHANGED others

\* the fetcher's promise resolves; checkIcon runs to its next await or return
FetcherResolve(p) ==
  /\ pc[p] = "awaitFetch"
  /\ \E r \in FetchResponses :
       /\ res' = [res EXCEPT ![p] = Some(r)]
       /\ CASE ResponseBranch(r) = "icon404" ->
                 /\ events' = [events EXCEPT ![p] = Append(@, Event("icon404", <<>>))]
                 /\ result' = [result EXCEPT ![p] = NoContentOutput(iconUrl[p])]
                 /\ pc' = [pc EXCEPT ![p] = "done"]
            [] ResponseBranch(r) = "cannotGet" ->
                 /\ events' = [events EXCEPT ![p] = Append(@, Event("cannotGet", << r.status >>))]
                 /\ result' = [result EXCEPT ![p] = NoContentOutput(iconUrl[p])]
                 /\ pc' = [pc EXCEPT ![p] = "done"]
            [] ResponseBranch(r) = "downloadable" ->
                 /\ events' = [events EXCEPT ![p] = Append(@, Event("downloadable", <<>>))]
                 /\ pc' = [pc EXCEPT ![p] = "awaitRead"]
                 /\ UNCHANGED result
            [] OTHER ->
                 /\ result' = [result EXCEPT ![p] = NoContentOutput(iconUrl[p])]
                 /\ pc' = [pc EXCEPT ![p] = "done"]
                 /\ UNCHANGED events
  /\ UNCHANGED << iconUrl, mimeType, expectedWidthHeight, fetchCalls,
                  readCount, chunks, rawContent, decoder, meta, content >>
  /\ UNCHANGED others

\* the fetcher's promise rejects: the await throws out of checkIcon
FetcherReject(p) ==
  /\ pc[p] = "awaitFetch"
  /\ result' = [result EXCEPT ![p] = Thrown]
  /\ pc' = [pc EXCEPT ![p] = "done"]
  /\ UNCHANGED << iconUrl, mimeType, expectedWidthHeight, events, fetchCalls, res,
                  readCount, chunks, rawContent, decoder, meta, content >>
  /\ UNCHANGED others

\* variant of ReadChunk in which `chunks` is one array shared by all drains
ReadChunk_SharedChunks(p) ==
  /\ pc[p] = "awaitRead"
  /\ readCount[p] < Len(Val(res[p]).readableStream.items)
  /\ readCount' = [readCount EXCEPT ![p] = @ + 1]
  /\ chunks' = [q \in Procs |->
                  Append(chunks[q], Val(res[p]).readableStream.items[readCount[p] + 1])]
  /\ UNCHANGED << pc, iconUrl, mimeType, expectedWidthHeight, events, fetchCalls, res,
                  rawContent, decoder, meta, content, result >>
  /\ UNCHANGED others

\* readableStreamToBuffer: reader.read() resolves with a chunk, done false
ReadChunk(p) ==
  /\ pc[p] = "awaitRead"
  /\ readCount[p] < Len(Val(res[p]).readableStream.items)
  /\ readCount' = [readCount EXCEPT ![p] = @ + 1]
  /\ chunks' = [chunks EXCEPT ![p] = Append(@, Val(res[p]).readableStream.items[readCount[p] + 1])]
  /\ UNCHANGED << pc, iconUrl, mimeType, expectedWidthHeight, events, fetchCalls, res,
                  rawContent, decoder, meta, content, result >>
  /\ UNCHANGED others

\* readableStreamToBuffer: reader.read() resolves with done true; the chunks
\* are concatenated and checkIcon asks the decoder for the metadata
ReadDone(p) ==
  /\ pc[p] = "awaitRead"
  /\ readCount[p] = Len(Val(res[p]).readableStream.items)
  /\ ~Val(res[p]).readableStream.fails
  /\ rawContent' = [rawContent EXCEPT ![p] = ConcatChunks(chunks[p])]
  /\ \E d \in DecoderOutcomes : decoder' = [decoder EXCEPT ![p] = Some(d)]
  /\ pc' = [pc EXCEPT ![p] = "awaitMetadata"]
  /\ UNCHANGED << iconUrl, mimeType, expectedWidthHeight, events, fetchCalls, res,
                  readCount, chunks, meta, content, result >>
  /\ UNCHANGED others

\* readableStreamToBuffer: reader.read() rejects; nothing catches it
ReadError(p) ==
  /\ pc[p] = "awaitRead"
  /\ readCount[p] = Len(Val(res[p]).readableStream.items)
  /\ Val(res[p]).readableStream.fails
  /\ result' = [result EXCEPT ![p] = Thrown]
  /\ pc' = [pc EXCEPT ![p] = "done"]
  /\ UNCHANGED << iconUrl, mimeType, expectedWidthHeight, events, fetchCalls, res,
                  readCount, chunks, rawContent, decoder, meta, content >>
  /\ UNCHANGED others

\* sharp(rawContent).metadata() resolves; the data URL is built and awaited
MetadataResolve(p) ==
  /\ pc[p] = "awaitMetadata"
  /\ Val(decoder[p]).ok
  /\ meta' = [meta EXCEPT ![p] = Val(decoder[p]).meta]
  /\ content' = [content EXCEPT ![p] =
       Some(bufferToDataUrl(rawContent[p], EffectiveContentType(Val(res[p]), iconUrl[p])))]
  /\ pc' = [pc EXCEPT ![p] = "awaitDataUrl"]
  /\ UNCHANGED << iconUrl, mimeType, expectedWidthHeight, events, fetchCalls, res,
                  readCount, chunks, rawContent, decoder, result >>
  /\ UNCHANGED others

\* variant of MetadataReject that catches the rejection and returns an
\* output without dimensions
MetadataReject_Caught(p) ==
  /\ pc[p] = "awaitMetadata"
  /\ ~Val(decoder[p]).ok
  /\ result' = [result EXCEPT ![p] = Output(None, iconUrl[p], None, None)]
  /\ pc' = [pc EXCEPT ![p] = "done"]
  /\ UNCHANGED << iconUrl, mimeType, expectedWidthHeight, events, fetchCalls, res,
                  readCount, chunks, rawContent, decoder, meta, content >>
  /\ UNCHANGED others

\* sharp(rawContent).metadata() rejects; nothing catches it
MetadataReject(p) ==
  /\ pc[p] = "awaitMetadata"
  /\ ~Val(decoder[p]).ok
  /\ result' = [result EXCEPT ![p] = Thrown]
  /\ pc' = [pc EXCEPT ![p] = "done"]
  /\ UNCHANGED << iconUrl, mimeType, expectedWidthHeight, events, fetchCalls, res,
                  readCount, chunks, rawContent, decoder, meta, content >>
  /\ UNCHANGED others

\* after the last await: the shape events and the returned object
Classify(p) ==
  /\ pc[p] = "awaitDataUrl"
  /\ events' = [events EXCEPT ![p] = @ \o ShapeEvents(meta[p], expectedWidthHeight[p])]
  /\ result' = [result EXCEPT ![p] =
       Output(content[p], iconUrl[p], OrNull(meta[p].width), OrNull(meta[p].height))]
  /\ pc' = [pc EXCEPT ![p] = "done"]
  /\ UNCHANGED << iconUrl, mimeType, expectedWidthHeight, fetchCalls, res,
                  readCount, chunks, rawContent, decoder, meta, content >>
  /\ UNCHANGED others

(* --------------------------- mergeUrlAndPath --------------------------- *)

UpperCase ==
  << "A", "B", "C", "D", "E", "F", "G", "H", "I", "J", "K", "L", "M",
     "N", "O", "P", "Q", "R", "S", "T", "U", "V", "W", "X", "Y", "Z" >>
LowerCase ==
  << "a", "b", "c", "d", "e", "f", "g", "h", "i", "j", "k", "l", "m",
     "n", "o", "p", "q", "r", "s", "t", "u", "v", "w", "x", "y", "z" >>
Digits == << "0", "1", "2", "3", "4", "5", "6", "7", "8", "9" >>

IsAlpha(c) == \E i \in 1..26 : c = UpperCase[i] \/ c = LowerCase[i]
IsDigit(c) == \E i \in 1..10 : c = Digits[i]
Lower(c) ==
  IF \E i \in 1..26 : c = UpperCase[i]
  THEN LowerCase[CHOOSE i \in 1..26 : c = UpperCase[i]]
  ELSE c
LowerSeq(s) == [ i \in 1..Len(s) |-> Lower(s[i]) ]

\* String.prototype.startsWith and endsWith
StartsWith(s, prefix) ==
  Len(s) >= Len(prefix) /\ SubSeq(s, 1, Len(prefix)) = prefix
EndsWith(s, suffix) ==
  Len(s) >= Len(suffix) /\ SubSeq(s, Len(s) - Len(suffix) + 1, Len(s)) = suffix

\* the first index of s that holds a character of C, Len(s) + 1 when none does
FirstIn(s, C) ==
  LET hits == { i \in 1..Len(s) : s[i] \in C }
  IN  IF hits = {} THEN Len(s) + 1 ELSE CHOOSE i \in hits : \A j \in hits : i <= j

\* the first index of s that holds no character of C, Len(s) + 1 when all do
FirstNotIn(s, C) ==
  LET hits == { i \in 1..Len(s) : s[i] \notin C }
  IN  IF hits = {} THEN Len(s) + 1 ELSE CHOOSE i \in hits : \A j \in hits : i <= j

Http == << "h", "t", "t", "p" >>
Https == << "h", "t", "t", "p", "s" >>

BadUrl == [ok |-> FALSE, protocol |-> <<>>, origin |-> <<>>, href |-> <<>>]

\* new URL(s) for an http or https URL, after the scheme and its ':': the
\* slashes are skipped, the host is lower-cased and must not be empty, a
\* default port is dropped, an empty path becomes "/".  (User info, dot
\* segments, percent-encoding and backslashes are not modelled; the inputs
\* have none.)
ParseSpecial(scheme, rest) ==
  LET afterSlashes == SubSeq(rest, FirstNotIn(rest, { "/" }), Len(rest))
      hostEnd == FirstIn(afterSlashes, { "/", "?", "#" }) - 1
      authority == SubSeq(afterSlashes, 1, hostEnd)
      colon == FirstIn(authority, { ":" })
      host == LowerSeq(SubSeq(authority, 1, colon - 1))
      port == SubSeq(authority, colon + 1, Len(authority))
      defaultPort == IF scheme = Http THEN << "8", "0" >> ELSE << "4", "4", "3" >>
      portPart == IF port = <<>> \/ port = defaultPort THEN <<>> ELSE << ":" >> \o port
      tail == SubSeq(afterSlashes, hostEnd + 1, Len(afterSlashes))
      path == IF tail = <<>> \/ tail[1] # "/" THEN << "/" >> \o tail ELSE tail
      origin == scheme \o << ":", "/", "/" >> \o host \o portPart
  IN  IF host = <<>> \/ \E i \in 1..Len(port) : ~IsDigit(port[i])
      THEN BadUrl
      ELSE [ok |-> TRUE, protocol |-> scheme \o << ":" >>, origin |-> origin,
            href |-> origin \o path]

\* new URL(s) without a base: s needs a scheme; an http(s) URL is normalised,
\* a URL of another scheme is kept as written and has the origin "null"
ParseUrl(s) ==
  LET colon == FirstIn(s, { ":" })
      scheme == LowerSeq(SubSeq(s, 1, colon - 1))
      validScheme ==
        /\ colon > 1 /\ colon <= Len(s)
        /\ IsAlpha(s[1])
        /\ \A i \in 1..(colon - 1) : IsAlpha(s[i]) \/ IsDigit(s[i]) \/ s[i] \in { "+", "-", "." }
      rest == SubSeq(s, colon + 1, Len(s))
  IN  IF ~validScheme THEN BadUrl
      ELSE IF scheme \in { Http, Https } THEN ParseSpecial(scheme, rest)
      ELSE [ok |-> TRUE, protocol |-> scheme \o << ":" >>,
            origin |-> << "n", "u", "l", "l" >>,
            href |-> scheme \o << ":" >> \o rest]

\* variant of mergeUrlAndPath that returns the path when the base does not parse
mergeUrlAndPath_Lenient(baseUrl, absoluteOrRelativePath) ==
  LET url == ParseUrl(baseUrl)
  IN  IF \/ StartsWith(absoluteOrRelativePath, Http \o << ":", "/", "/" >>)
         \/ StartsWith(absoluteOrRelativePath, Https \o << ":", "/", "/" >>)
         \/ ~url.ok
      THEN Returns(absoluteOrRelativePath)
      ELSE IF StartsWith(absoluteOrRelativePath, << "/", "/" >>)
      THEN Returns(url.protocol \o absoluteOrRelativePath)
      ELSE IF StartsWith(absoluteOrRelativePath, << "/" >>)
      THEN Returns(url.origin \o absoluteOrRelativePath)
      ELSE Returns(url.href \o (IF EndsWith(url.href, << "/" >>) THEN <<>> ELSE << "/" >>)
                     \o absoluteOrRelativePath)

\* variant of mergeUrlAndPath that appends to baseUrl as it was passed in
mergeUrlAndPath_RawBase(baseUrl, absoluteOrRelativePath) ==
  LET url == ParseUrl(baseUrl)
  IN  IF \/ StartsWith(absoluteOrRelativePath, Http \o << ":", "/", "/" >>)
         \/ StartsWith(absoluteOrRelativePath, Https \o << ":", "/", "/" >>)
      THEN Returns(absoluteOrRelativePath)
      ELSE IF ~url.ok THEN Throws
      ELSE IF StartsWith(absoluteOrRelativePath, << "/", "/" >>)
      THEN Returns(url.protocol \o absoluteOrRelativePath)
      ELSE IF StartsWith(absoluteOrRelativePath, << "/" >>)
      THEN Returns(url.origin \o absoluteOrRelativePath)
      ELSE Returns(baseUrl \o (IF EndsWith(baseUrl, << "/" >>) THEN <<>> ELSE << "/" >>)
                     \o absoluteOrRelativePath)

mergeUrlAndPath(baseUrl, absoluteOrRelativePath) ==
  LET url == ParseUrl(baseUrl)
  IN  IF \/ StartsWith(absoluteOrRelativePath, Http \o << ":", "/", "/" >>)
         \/ StartsWith(absoluteOrRelativePath, Https \o << ":", "/", "/" >>)
      THEN Returns(absoluteOrRelativePath)
      ELSE IF ~url.ok THEN Throws
      ELSE IF StartsWith(absoluteOrRelativePath, << "/", "/" >>)
      THEN Returns(url.protocol \o absoluteOrRelativePath)
      ELSE IF StartsWith(absoluteOrRelativePath, << "/" >>)
      THEN Returns(url.origin \o absoluteOrRelativePath)
      ELSE Returns(url.href \o (IF EndsWith(url.href, << "/" >>) THEN <<>> ELSE << "/" >>)
                     \o absoluteOrRelativePath)

\* base URLs passed to mergeUrlAndPath: "http://h", "http://h/", "https://h/p",
\* "https://h/p/", "HTTP://H/p", "http://h:80/p", "https://h:8/p?q", "mailto:a",
\* and four that do not parse: "", "h", "/p", "http://"
BaseUrls ==
  { << "h", "t", "t", "p", ":", "/", "/", "h" >>,
    << "h", "t", "t", "p", ":", "/", "/", "h", "/" >>,
    << "h", "t", "t", "p", "s", ":", "/", "/", "h", "/", "p" >>,
    << "h", "t", "t", "p", "s", ":", "/", "/", "h", "/", "p", "/" >>,
    << "H", "T", "T", "P", ":", "/", "/", "H", "/", "p" >>,
    << "h", "t", "t", "p", ":", "/", "/", "h", ":", "8", "0", "/", "p" >>,
    << "h", "t", "t", "p", "s", ":", "/", "/", "h", ":", "8", "/", "p", "?", "q" >>,
    << "m", "a", "i", "l", "t", "o", ":", "a" >>,
    << >>,
    << "h" >>,
    << "/", "p" >>,
    << "h", "t", "t", "p", ":", "/", "/" >> }

\* references passed to mergeUrlAndPath: "http://x/y", "https://x", "HTTP://x",
\* "http:/x", "//c/i", "/i", "/", "i", "../i", ""
References ==
  { << "h", "t", "t", "p", ":", "/", "/", "x", "/", "y" >>,
    << "h", "t", "t", "p", "s", ":", "/", "/", "x" >>,
    << "H", "T", "T", "P", ":", "/", "/", "x" >>,
    << "h", "t", "t", "p", ":", "/", "x" >>,
    << "/", "/", "c", "/", "i" >>,
    << "/", "i" >>,
    << "/" >>,
    << "i" >>,
    << ".", ".", "/", "i" >>,
    << >> }

\* one call of mergeUrlAndPath
MergeCall ==
  /\ merge.out = NotCalled
  /\ merge' = [merge EXCEPT !.out = mergeUrlAndPath(merge.baseUrl, merge.path)]
  /\ UNCHANGED << checkIconVars, sizes, report, verdict >>

InitMerge ==
  /\ NoInvocation
  /\ merge \in [baseUrl : BaseUrls, path : References, out : { NotCalled }]
  /\ sizes = NoSizes
  /\ report = EmptyReport
  /\ verdict = NoVerdict

NextMerge == MergeCall

SpecMerge == InitMerge /\ [][NextMerge]_vars

(* ------------------------- parseSizesAttribute ------------------------- *)

\* longest input of parseSizesAttribute in the model
MaxSizesLen == 5

\* the last index of the run of digits of s that starts at i, i - 1 when
\* s[i] is not a digit
RunEnd(s, i) ==
  LET stops == { j \in i..Len(s) : ~IsDigit(s[j]) }
  IN  IF stops = {} THEN Len(s) ELSE (CHOOSE j \in stops : \A k \in stops : j <= k) - 1

\* /(\d+)x(\d+)/ matches at i: greedy digits, an 'x', greedy digits
MatchesAt(s, i) ==
  LET e == RunEnd(s, i)
  IN  e >= i /\ e + 2 <= Len(s) /\ s[e + 1] = "x" /\ IsDigit(s[e + 2])

\* sizes.match(/(\d+)x(\d+)/): the two groups of the leftmost match, or null
RegexMatch(s) ==
  LET starts == { i \in 1..Len(s) : MatchesAt(s, i) }
  IN  IF starts = {} THEN None
      ELSE LET i == CHOOSE a \in starts : \A b \in starts : a <= b
               e == RunEnd(s, i)
           IN  Some([g1 |-> SubSeq(s, i, e), g2 |-> SubSeq(s, e + 2, RunEnd(s, e + 2))])

DigitValue(c) == (CHOOSE i \in 1..10 : Digits[i] = c) - 1

\* parseInt of a string of decimal digits
RECURSIVE ParseInt(_)
ParseInt(ds) ==
  IF Len(ds) = 0 THEN 0
  ELSE 10 * ParseInt(SubSeq(ds, 1, Len(ds) - 1)) + DigitValue(ds[Len(ds)])

parseSizesAttribute(sz) ==
  IF ~TruthyChars(sz) THEN ReturnsNull
  ELSE LET match == RegexMatch(Val(sz))
       IN  IF IsSome(match)
           THEN IF Val(match).g1 # Val(match).g2
                THEN ReturnsNull
                ELSE Returns(ParseInt(Val(match).g1))
           ELSE ReturnsNull

\* the characters of the inputs of parseSizesAttribute
SizesChars == { "0", "1", "6", "x", " " }

\* undefined / null, or a string
SizesInputs == { None } \cup { Some(s) : s \in SeqsUpTo(SizesChars, MaxSizesLen) }

\* one call of parseSizesAttribute
SizesCall ==
  /\ sizes.out = NotCalled
  /\ sizes' = [sizes EXCEPT !.out = parseSizesAttribute(sizes.sizes)]
  /\ UNCHANGED << checkIconVars, merge, report, verdict >>

InitSizes ==
  /\ NoInvocation
  /\ merge = NoMerge
  /\ sizes \in [sizes : SizesInputs, out : { NotCalled }]
  /\ report = EmptyReport
  /\ verdict = NoVerdict

NextSizes == SizesCall

SpecSizes == InitSizes /\ [][NextSizes]_vars

(* ------------------------- report aggregation -------------------------- *)

\* most messages a report holds in the model, over its three sections
MaxMessages == 4

\* enum CheckerStatus
CheckerStatuses == { "Ok", "Error", "Warning" }

\* the sections of a FaviconReport
Sections == { "desktop", "touchIcon", "webAppManifest" }

\* messages.some(message => message.status === status)
SomeWithStatus(messages, status) ==
  \E i \in 1..Len(messages) : messages[i].status = status

\* variant of reportHasErrors that leaves the web app manifest out
reportHasErrors_TwoSections(r) ==
  \/ SomeWithStatus(r.desktop, "Error")
  \/ SomeWithStatus(r.touchIcon, "Error")

reportHasErrors(r) ==
  \/ SomeWithStatus(r.desktop, "Error")
  \/ SomeWithStatus(r.touchIcon, "Error")
  \/ SomeWithStatus(r.webAppManifest, "Error")

reportHasWarnings(r) ==
  \/ SomeWithStatus(r.desktop, "Warning")
  \/ SomeWithStatus(r.touchIcon, "Warning")
  \/ SomeWithStatus(r.webAppManifest, "Warning")

\* a caller appends a message to a section; the answers given about the
\* report as it was are dropped
AppendMessage ==
  /\ Len(report.desktop) + Len(report.touchIcon) + Len(report.webAppManifest) < MaxMessages
  /\ \E section \in Sections, status \in CheckerStatuses :
       report' = [report EXCEPT ![section] = Append(@, [status |-> status])]
  /\ verdict' = NoVerdict
  /\ UNCHANGED << checkIconVars, merge, sizes >>

\* a caller asks reportHasErrors(report) and reportHasWarnings(report)
AskReport ==
  /\ ~verdict.asked
  /\ verdict' = [asked |-> TRUE,
                 hasErrors |-> reportHasErrors(report),
                 hasWarnings |-> reportHasWarnings(report)]
  /\ UNCHANGED << checkIconVars, merge, sizes, report >>

NextReport ==
  \/ AppendMessage
  \/ AskReport

SpecReport == Init /\ [][NextReport]_vars

(* --------------------------- specification ----------------------------- *)

\* one invocation of checkIcon, run alone
Next ==
  \/ CheckIconCall(1)
  \/ FetcherResolve(1)
  \/ FetcherReject(1)
  \/ ReadChunk(1)
  \/ ReadDone(1)
  \/ ReadError(1)
  \/ MetadataResolve(1)
  \/ MetadataReject(1)
  \/ Classify(1)

Spec == Init /\ [][Next]_vars

\* the steps of invocation p
Run(p) ==
  \/ CheckIconCall(p)
  \/ FetcherResolve(p)
  \/ FetcherReject(p)
  \/ ReadChunk(p)
  \/ ReadDone(p)
  \/ ReadError(p)
  \/ MetadataResolve(p)
  \/ MetadataReject(p)
  \/ Classify(p)

\* the arguments and fetch results the callers and fetchers of the
\* concurrent invocations use
ConcurrentStreams ==
  { NoStream("null"),
    [tag |-> "stream", items |-> << << 77 >>, << 97, 110 >> >>, fails |-> FALSE],
    [tag |-> "stream", items |-> << << 77 >> >>, fails |-> TRUE] }

ConcurrentInputs ==
  \A p \in Procs :
    /\ iconUrl[p] \in { None, Some(<<"a", ".", "p", "n", "g">>) }
    /\ mimeType[p] = None
    /\ expectedWidthHeight[p] \in { None, Some(1) }
    /\ IsSome(res[p]) =>
         /\ Val(res[p]).status \in { 200, 404, 500 }
         /\ Val(res[p]).contentType = None
         /\ Val(res[p]).readableStream \in ConcurrentStreams

\* the invocations run concurrently: any of them takes the next step
NextConcurrent ==
  \/ \E p \in Procs : CheckIconCall(p) /\ ConcurrentInputs'
  \/ \E p \in Procs : FetcherResolve(p) /\ ConcurrentInputs'
  \/ \E p \in Procs : FetcherReject(p)
  \/ \E p \in Procs : ReadChunk(p)
  \/ \E p \in Procs : ReadDone(p)
  \/ \E p \in Procs : ReadError(p)
  \/ \E p \in Procs : MetadataResolve(p)
  \/ \E p \in Procs : MetadataReject(p)
  \/ \E p \in Procs : Classify(p)

SpecConcurrent == Init /\ [][NextConcurrent]_vars

\* the same invocation on a stream that keeps delivering: a pending
\* reader.read() of a stream that has chunks left, or has ended, resolves
SpecDrain == Spec /\ WF_vars(ReadChunk(1)) /\ WF_vars(ReadDone(1))

(* ------------------------------ properties ----------------------------- *)

Called(p) == pc[p] # "idle"
Done(p) == pc[p] = "done"
Fetched(p) == IsSome(res[p])
Status(p) == Val(res[p]).status
HasStream(p) == Val(res[p]).readableStream.tag = "stream"
HasUrl(p) == IsSome(iconUrl[p]) /\ Val(iconUrl[p]) # <<>>
Names(p) == { events[p][i].name : i \in 1..Len(events[p]) }

\* C1: an invocation whose iconUrl is undefined or the empty string gives its
\* processor exactly one event, noHref, returns null, and never calls the
\* fetcher, whatever the other arguments are.
C1_NoHref ==
  \A p \in Procs :
    (Called(p) /\ (iconUrl[p] = None \/ iconUrl[p] = Some(<<>>)))
      => /\ events[p] = << Event("noHref", <<>>) >>
         /\ result[p] = ReturnNull
         /\ fetchCalls[p] = <<>>
         /\ Done(p)

C1_Witness ==
  /\ iconUrl[1] = Some(<<>>)
  /\ expectedWidthHeight[1] = Some(1)
  /\ mimeType[1] = Some("image/png")
  /\ events[1] = << Event("noHref", <<>>) >>
  /\ result[1].kind = "null"

\* C2: when the fetch result of an invocation with a non-empty iconUrl has
\* status 404, the processor receives exactly one event, icon404, and nothing
\* else, with or without a byte stream and whatever the content type.
C2_Icon404 ==
  \A p \in Procs :
    (HasUrl(p) /\ Fetched(p) /\ Status(p) = 404)
      => events[p] = << Event("icon404", <<>>) >>

C2_Witness ==
  /\ Fetched(1) /\ Status(1) = 404 /\ HasStream(1)
  /\ Val(res[1]).contentType = Some("text/html")
  /\ Done(1)
  /\ events[1] = << Event("icon404", <<>>) >>

\* C3: when the fetch result has a status S >= 300 other than 404, the
\* processor receives exactly one event, cannotGet(S) with that same S, and
\* nothing else, with or without a byte stream.
C3_CannotGet ==
  \A p \in Procs :
    (HasUrl(p) /\ Fetched(p) /\ Status(p) >= 300 /\ Status(p) # 404)
      => events[p] = << Event("cannotGet", << Status(p) >>) >>

C3_Witness ==
  /\ Fetched(1) /\ Status(1) = 300 /\ HasStream(1)
  /\ Done(1)
  /\ events[1] = << Event("cannotGet", << 300 >>) >>

\* the fetch succeeded with a byte stream and the decoder resolves with metadata
DecodesTo(p) == Val(decoder[p]).meta
Decodable(p) ==
  /\ Fetched(p) /\ Status(p) < 300 /\ Status(p) # 404 /\ HasStream(p)
  /\ IsSome(decoder[p]) /\ Val(decoder[p]).ok

\* C4: after a successful fetch with a byte stream whose metadata decodes to
\* width = height = W, the processor receives downloadable first and then
\* square(W), and never notSquare.
C4_Square ==
  \A p \in Procs :
    (Decodable(p) /\ IsSome(DecodesTo(p).width) /\ DecodesTo(p).width = DecodesTo(p).height)
      => /\ "notSquare" \notin Names(p)
         /\ Len(events[p]) >= 1
         /\ events[p][1] = Event("downloadable", <<>>)
         /\ Len(events[p]) >= 2 => events[p][2] = Event("square", << Val(DecodesTo(p).width) >>)
         /\ Done(p) => Len(events[p]) >= 2

C4_Witness ==
  /\ Decodable(1) /\ Done(1)
  /\ Status(1) = 199
  /\ DecodesTo(1) = [width |-> Some(2), height |-> Some(2)]
  /\ events[1][1] = Event("downloadable", <<>>)
  /\ events[1][2] = Event("square", << 2 >>)

\* C5: once square(W) has been emitted, a given expectedSquareSize (any
\* integer, 0 included) is followed by exactly one more event, rightSize(W)
\* when W equals it and wrongSize(W) otherwise; with no expectedSquareSize
\* neither rightSize nor wrongSize is emitted.
C5_SizeVerdict ==
  \A p \in Procs :
    \A i \in 1..Len(events[p]) :
      (Done(p) /\ events[p][i].name = "square")
        => LET W == events[p][i].args[1]
           IN  IF IsSome(expectedWidthHeight[p])
               THEN /\ Len(events[p]) = i + 1
                    /\ events[p][i + 1] =
                         ( IF W = Val(expectedWidthHeight[p])
                           THEN Event("rightSize", << W >>)
                           ELSE Event("wrongSize", << W >>) )
               ELSE /\ "rightSize" \notin Names(p)
                    /\ "wrongSize" \notin Names(p)

\* C6: after a successful fetch with a byte stream whose metadata decodes to
\* a width and a height that differ, the processor receives downloadable and
\* then notSquare(width, height) with the decoded values, and never square,
\* rightSize or wrongSize, whatever expectedSquareSize is.
C6_NotSquare ==
  \A p \in Procs :
    ( /\ Decodable(p)
      /\ IsSome(DecodesTo(p).width) /\ IsSome(DecodesTo(p).height)
      /\ DecodesTo(p).width # DecodesTo(p).height )
      => /\ Names(p) \cap { "square", "rightSize", "wrongSize" } = {}
         /\ Len(events[p]) >= 1
         /\ events[p][1] = Event("downloadable", <<>>)
         /\ Done(p) =>
              events[p] = << Event("downloadable", <<>>),
                             Event("notSquare", << Val(DecodesTo(p).width),
                                                   Val(DecodesTo(p).height) >>) >>

C6_Witness ==
  /\ Decodable(1) /\ Done(1)
  /\ DecodesTo(1) = [width |-> Some(2), height |-> Some(1)]
  /\ expectedWidthHeight[1] = Some(2)
  /\ events[1] = << Event("downloadable", <<>>), Event("notSquare", << 2, 1 >>) >>

\* C7: when the fetch result of an invocation with a non-empty iconUrl has a
\* status in [200,300) and no byte stream (undefined or null), the invocation
\* returns {content: null, url: iconUrl, width: null, height: null} and the
\* processor receives no event.
C7_SilentNoBody ==
  \A p \in Procs :
    (HasUrl(p) /\ Fetched(p) /\ Status(p) >= 200 /\ Status(p) < 300 /\ ~HasStream(p))
      => /\ Done(p)
         /\ result[p] = [kind |-> "output", content |-> None, url |-> iconUrl[p],
                         width |-> None, height |-> None]
         /\ events[p] = <<>>

C7_Witness ==
  /\ Fetched(1) /\ Status(1) = 200
  /\ Val(res[1]).readableStream.tag = "null"
  /\ Done(1)
  /\ result[1].kind = "output" /\ result[1].content = None
  /\ events[1] = <<>>

\* the event traces an invocation may show
AllowedTrace(tr) ==
  \/ tr = <<>>
  \/ tr = << Event("noHref", <<>>) >>
  \/ tr = << Event("icon404", <<>>) >>
  \/ Len(tr) = 1 /\ tr[1].name = "cannotGet" /\ Len(tr[1].args) = 1
  \/ tr = << Event("downloadable", <<>>) >>
  \/ /\ Len(tr) = 2
     /\ tr[1] = Event("downloadable", <<>>)
     /\ tr[2].name = "notSquare" /\ Len(tr[2].args) = 2
  \/ /\ Len(tr) \in {2, 3}
     /\ tr[1] = Event("downloadable", <<>>)
     /\ tr[2].name = "square" /\ Len(tr[2].args) = 1
     /\ Len(tr) = 3 => /\ tr[3].name \in { "rightSize", "wrongSize" }
                        /\ tr[3].args = tr[2].args

IsPrefix(a, b) == Len(a) <= Len(b) /\ a = SubSeq(b, 1, Len(a))

\* C8: the events of one invocation come in a fixed order: at every moment
\* the trace is one of [], [noHref], [icon404], [cannotGet(s)], [downloadable],
\* [downloadable, notSquare(w,h)], [downloadable, square(w)],
\* [downloadable, square(w), rightSize(w)], [downloadable, square(w), wrongSize(w)],
\* and it only ever grows at its end.
C8_FixedOrder ==
  /\ [](\A p \in Procs : AllowedTrace(events[p]))
  /\ [][\A p \in Procs : IsPrefix(events[p], events'[p])]_vars

C8_Witness ==
  /\ Done(1)
  /\ events[1] = << Event("downloadable", <<>>), Event("square", << 1 >>),
                    Event("wrongSize", << 1 >>) >>

\* C9: after a fetch result with a status below 300 (not 404) and a byte
\* stream, a failing drain or a failing decoder is not recovered: the
\* invocation ends by throwing, returns no output, and the only event the
\* processor has received is the downloadable emitted before the drain.
C9_NoRecovery ==
  \A p \in Procs :
    ( /\ Fetched(p) /\ Status(p) < 300 /\ Status(p) # 404 /\ HasStream(p)
      /\ \/ Val(res[p]).readableStream.fails
         \/ IsSome(decoder[p]) /\ ~Val(decoder[p]).ok )
      => /\ events[p] = << Event("downloadable", <<>>) >>
         /\ result[p].kind \in { "pending", "throw" }
         /\ Done(p) <=> result[p].kind = "throw"
         /\ pc[p] \in { "awaitRead", "awaitMetadata", "done" }
         /\ content[p] = None

C9_Witness ==
  /\ Fetched(1) /\ HasStream(1) /\ ~Val(res[1]).readableStream.fails
  /\ IsSome(decoder[1]) /\ ~Val(decoder[1]).ok
  /\ Done(1)
  /\ result[1].kind = "throw"
  /\ events[1] = << Event("downloadable", <<>>) >>

\* the error event that stands for a status
ErrorEvent(st) ==
  IF st = 404 THEN Event("icon404", <<>>) ELSE Event("cannotGet", << st >>)

\* C10 as stated: for a fetch result whose status is 404 or any integer
\* outside [200,300), statuses below 200 included, the invocation completes
\* without failure and the processor has received the error event for it.
C10_NonSuccessCaptured ==
  \A p \in Procs :
    (Fetched(p) /\ Done(p) /\ (Status(p) = 404 \/ Status(p) < 200 \/ Status(p) >= 300))
      => /\ result[p].kind = "output"
         /\ events[p] = << ErrorEvent(Status(p)) >>

\* C10, amended: for a fetch result whose status is 404 or at least 300, with
\* or without a byte stream, the invocation completes without failure right
\* away and the processor has received the error event for it (icon404 for
\* 404, cannotGet(status) otherwise).
C10_ErrorStatusCaptured ==
  \A p \in Procs :
    (Fetched(p) /\ (Status(p) = 404 \/ Status(p) >= 300))
      => /\ Done(p)
         /\ result[p].kind = "output"
         /\ events[p] = << ErrorEvent(Status(p)) >>

C10_Witness ==
  /\ Fetched(1) /\ Status(1) = 500 /\ HasStream(1)
  /\ Val(res[1]).readableStream.fails
  /\ Done(1)
  /\ result[1].kind = "output"
  /\ events[1] = << Event("cannotGet", << 500 >>) >>

\* what the stream of the fetch result delivers before it ends
Items(p) == Val(res[p]).readableStream.items

\* the number of bytes in the first k chunks
RECURSIVE BytesIn(_, _)
BytesIn(cs, k) == IF k = 0 THEN 0 ELSE BytesIn(cs, k - 1) + Len(cs[k])

\* the drain of the stream has returned its buffer
Drained(p) ==
  /\ Fetched(p) /\ HasStream(p)
  /\ pc[p] \in { "awaitMetadata", "awaitDataUrl", "done" }
  /\ IsSome(decoder[p])

\* the URL is exactly the extension, or ends in a dot followed by it
HasExtension(u, ext) ==
  \/ u = ext
  \/ /\ Len(u) > Len(ext)
     /\ SubSeq(u, Len(u) - Len(ext), Len(u)) = << "." >> \o ext

\* the content type the data URL is to carry
DeclaredOrInferred(p) ==
  LET ct == Val(res[p]).contentType
      u == Val(iconUrl[p])
  IN  IF ct # None /\ ct # Some("") THEN Val(ct)
      ELSE IF HasExtension(u, << "p", "n", "g" >>) THEN "image/png"
      ELSE IF HasExtension(u, << "s", "v", "g" >>) THEN "image/svg+xml"
      ELSE IF HasExtension(u, << "i", "c", "o" >>) THEN "image/x-icon"
      ELSE IF HasExtension(u, << "j", "p", "g" >>) \/ HasExtension(u, << "j", "p", "e", "g" >>)
           THEN "image/jpeg"
      ELSE "application/octet-stream"

\* C16: for every finite sequence of chunks followed by end-of-stream,
\* readableStreamToBuffer terminates and returns the chunks laid end to end
\* in arrival order: the length is the sum of the chunk lengths and every
\* byte sits where its chunk and offset put it.
C16_DrainConcatenates ==
  /\ [](\A p \in Procs :
          Drained(p) =>
            /\ readCount[p] = Len(Items(p))
            /\ chunks[p] = Items(p)
            /\ Len(rawContent[p]) = BytesIn(Items(p), Len(Items(p)))
            /\ \A i \in 1..Len(Items(p)) : \A j \in 1..Len(Items(p)[i]) :
                 rawContent[p][BytesIn(Items(p), i - 1) + j] = Items(p)[i][j])
  /\ \A p \in {1} :
       (pc[p] = "awaitRead" /\ ~Val(res[p]).readableStream.fails) ~> Drained(p)

C16_Witness ==
  /\ Drained(1)
  /\ Items(1) = << << 97, 110 >>, << >> >>
  /\ rawContent[1] = << 97, 110 >>

\* C15: when checkIcon returns after emitting downloadable, the returned
\* content is 'data:' + T + ';base64,' + base64(drained bytes), T being the
\* declared content type of the fetch result when there is one, otherwise
\* the type the extension table gives for iconUrl (case-sensitive), otherwise
\* application/octet-stream.
C15_DataUrl ==
  \A p \in Procs :
    (Done(p) /\ result[p].kind = "output" /\ "downloadable" \in Names(p))
      => /\ IsSome(result[p].content)
         /\ Val(result[p].content) =
              << "data:", DeclaredOrInferred(p), ";base64,", Base64(rawContent[p]) >>
         /\ Len(Val(result[p].content)[4]) = 4 * ((Len(rawContent[p]) + 2) \div 3)

C15_Witness ==
  /\ Done(1) /\ result[1].kind = "output"
  /\ iconUrl[1] = Some(<< "b", ".", "c", ".", "s", "v", "g" >>)
  /\ Val(res[1]).contentType = None
  /\ Items(1) = << << 77 >>, << 97, 110 >> >>
  /\ result[1].content =
       Some(<< "data:", "image/svg+xml", ";base64,", << "T", "W", "F", "u" >> >>)

\* the invocation returned (it did not throw)
Returned(p) == Done(p) /\ result[p].kind \in { "null", "output" }

\* C18: on the icon404 and cannotGet branches the byte stream of the fetch
\* result is never read (no read, no chunk, no decode) even when present, and
\* the result is {content: null, url: iconUrl, width: null, height: null};
\* the result of a completed invocation is null exactly when iconUrl was
\* empty or undefined, and every non-null result carries the iconUrl passed in.
C18_ErrorBranchFrame ==
  \A p \in Procs :
    /\ (Names(p) \cap { "icon404", "cannotGet" } # {})
         => /\ readCount[p] = 0 /\ chunks[p] = <<>> /\ rawContent[p] = <<>>
            /\ decoder[p] = None /\ content[p] = None
            /\ Done(p)
            /\ result[p] = [kind |-> "output", content |-> None, url |-> iconUrl[p],
                            width |-> None, height |-> None]
    /\ Returned(p)
         => /\ result[p].kind = "null" <=> (iconUrl[p] = None \/ iconUrl[p] = Some(<<>>))
            /\ result[p].kind = "output" => result[p].url = iconUrl[p] /\ HasUrl(p)

C18_Witness ==
  /\ Done(1) /\ Fetched(1) /\ Status(1) = 403
  /\ Items(1) = << << 77 >> >>
  /\ events[1] = << Event("cannotGet", << 403 >>) >>
  /\ readCount[1] = 0
  /\ result[1].url = Some(<< "f", ".", "I", "C", "O" >>)

\* C19: the events of a completed invocation agree with its return value:
\* content is non-null exactly when downloadable was emitted; square(W) comes
\* with width = height = W; notSquare(w,h) comes with width = w and
\* height = h; downloadable with neither square nor notSquare comes with a
\* null width or a null height.
C19_EventsAgreeWithResult ==
  \A p \in Procs :
    (Returned(p) /\ result[p].kind = "output")
      => /\ IsSome(result[p].content) <=> "downloadable" \in Names(p)
         /\ \A i \in 1..Len(events[p]) :
              /\ events[p][i].name = "square"
                   => /\ result[p].width = Some(events[p][i].args[1])
                      /\ result[p].height = Some(events[p][i].args[1])
              /\ events[p][i].name = "notSquare"
                   => /\ result[p].width = Some(events[p][i].args[1])
                      /\ result[p].height = Some(events[p][i].args[2])
         /\ ("downloadable" \in Names(p) /\ Names(p) \cap { "square", "notSquare" } = {})
              => (result[p].width = None \/ result[p].height = None)

C19_Witness ==
  /\ Returned(1)
  /\ events[1] = << Event("downloadable", <<>>) >>
  /\ result[1].width = Some(2) /\ result[1].height = None
  /\ IsSome(result[1].content)

\* everything invocation p reads or writes
StateOf(p) ==
  << pc[p], iconUrl[p], mimeType[p], expectedWidthHeight[p], events[p], fetchCalls[p],
     res[p], readCount[p], chunks[p], rawContent[p], decoder[p], meta[p], content[p],
     result[p] >>

\* C11: invocations may run concurrently with no coordination: in every
\* interleaving at the await points, each step either is a step of invocation
\* p exactly as p takes it when run alone (and then touches nothing of the
\* other invocation, its processor included), or leaves everything of p
\* untouched; so p's event sequence and return value are those of p run alone.
C11_Independent ==
  /\ [][Run(1)]_(StateOf(1))
  /\ [][Run(2)]_(StateOf(2))

C11_Witness ==
  /\ pc[1] = "awaitRead" /\ readCount[1] = 1
  /\ events[1] = << Event("downloadable", <<>>) >>
  /\ pc[2] = "done"
  /\ events[2] = << Event("downloadable", <<>>), Event("square", << 1 >>),
                    Event("rightSize", << 1 >>) >>
  /\ chunks[1] = << << 77 >> >>
  /\ chunks[2] = << << 77 >>, << 97, 110 >> >>

\* the base URLs of the model that new URL() rejects: "", "h", "/p", "http://"
UnparsableBases ==
  { << >>, << "h" >>, << "/", "p" >>, << "h", "t", "t", "p", ":", "/", "/" >> }

\* the reference starts with http:// or https://
IsAbsolute(ref) ==
  \/ StartsWith(ref, << "h", "t", "t", "p", ":", "/", "/" >>)
  \/ StartsWith(ref, << "h", "t", "t", "p", "s", ":", "/", "/" >>)

MergeCalled == merge.out # NotCalled

\* C12 as stated: mergeUrlAndPath fails with an invalid-URL error for every
\* baseUrl that does not parse, whatever the reference is, references that
\* start with http:// or https:// included.
C12_FailsOnBadBase ==
  (MergeCalled /\ merge.baseUrl \in UnparsableBases) => merge.out.kind = "throw"

\* C12, amended: mergeUrlAndPath fails with an invalid-URL error for every
\* baseUrl that does not parse and every reference that does not start with
\* http:// or https://; a reference that does is returned unchanged, the
\* base being left unparsed.
C12_FailsOnBadBaseUnlessAbsolute ==
  (MergeCalled /\ merge.baseUrl \in UnparsableBases)
    => IF IsAbsolute(merge.path)
       THEN merge.out = [kind |-> "return", value |-> << merge.path >>]
       ELSE merge.out.kind = "throw"

C12_Witness ==
  /\ merge.baseUrl = << "h" >>
  /\ merge.path = << "/", "/", "c", "/", "i" >>
  /\ merge.out.kind = "throw"

\* the protocol of each base URL that parses, as Node's URL reports it
ProtocolOf(b) ==
  CASE b = << "h", "t", "t", "p", ":", "/", "/", "h" >> ->
         << "h", "t", "t", "p", ":" >>
    [] b = << "h", "t", "t", "p", ":", "/", "/", "h", "/" >> ->
         << "h", "t", "t", "p", ":" >>
    [] b = << "h", "t", "t", "p", "s", ":", "/", "/", "h", "/", "p" >> ->
         << "h", "t", "t", "p", "s", ":" >>
    [] b = << "h", "t", "t", "p", "s", ":", "/", "/", "h", "/", "p", "/" >> ->
         << "h", "t", "t", "p", "s", ":" >>
    [] b = << "H", "T", "T", "P", ":", "/", "/", "H", "/", "p" >> ->
         << "h", "t", "t", "p", ":" >>
    [] b = << "h", "t", "t", "p", ":", "/", "/", "h", ":", "8", "0", "/", "p" >> ->
         << "h", "t", "t", "p", ":" >>
    [] b = << "h", "t", "t", "p", "s", ":", "/", "/", "h", ":", "8", "/", "p", "?", "q" >> ->
         << "h", "t", "t", "p", "s", ":" >>
    [] b = << "m", "a", "i", "l", "t", "o", ":", "a" >> ->
         << "m", "a", "i", "l", "t", "o", ":" >>

\* the origin of each base URL that parses, as Node's URL reports it
OriginOf(b) ==
  CASE b = << "h", "t", "t", "p", ":", "/", "/", "h" >> ->
         << "h", "t", "t", "p", ":", "/", "/", "h" >>
    [] b = << "h", "t", "t", "p", ":", "/", "/", "h", "/" >> ->
         << "h", "t", "t", "p", ":", "/", "/", "h" >>
    [] b = << "h", "t", "t", "p", "s", ":", "/", "/", "h", "/", "p" >> ->
         << "h", "t", "t", "p", "s", ":", "/", "/", "h" >>
    [] b = << "h", "t", "t", "p", "s", ":", "/", "/", "h", "/", "p", "/" >> ->
         << "h", "t", "t", "p", "s", ":", "/", "/", "h" >>
    [] b = << "H", "T", "T", "P", ":", "/", "/", "H", "/", "p" >> ->
         << "h", "t", "t", "p", ":", "/", "/", "h" >>
    [] b = << "h", "t", "t", "p", ":", "/", "/", "h", ":", "8", "0", "/", "p" >> ->
         << "h", "t", "t", "p", ":", "/", "/", "h" >>
    [] b = << "h", "t", "t", "p", "s", ":", "/", "/", "h", ":", "8", "/", "p", "?", "q" >> ->
         << "h", "t", "t", "p", "s", ":", "/", "/", "h", ":", "8" >>
    [] b = << "m", "a", "i", "l", "t", "o", ":", "a" >> ->
         << "n", "u", "l", "l" >>

\* the href of each base URL that parses, as Node's URL reports it
HrefOf(b) ==
  CASE b = << "h", "t", "t", "p", ":", "/", "/", "h" >> ->
         << "h", "t", "t", "p", ":", "/", "/", "h", "/" >>
    [] b = << "h", "t", "t", "p", ":", "/", "/", "h", "/" >> ->
         << "h", "t", "t", "p", ":", "/", "/", "h", "/" >>
    [] b = << "h", "t", "t", "p", "s", ":", "/", "/", "h", "/", "p" >> ->
         << "h", "t", "t", "p", "s", ":", "/", "/", "h", "/", "p" >>
    [] b = << "h", "t", "t", "p", "s", ":", "/", "/", "h", "/", "p", "/" >> ->
         << "h", "t", "t", "p", "s", ":", "/", "/", "h", "/", "p", "/" >>
    [] b = << "H", "T", "T", "P", ":", "/", "/", "H", "/", "p" >> ->
         << "h", "t", "t", "p", ":", "/", "/", "h", "/", "p" >>
    [] b = << "h", "t", "t", "p", ":", "/", "/", "h", ":", "8", "0", "/", "p" >> ->
         << "h", "t", "t", "p", ":", "/", "/", "h", "/", "p" >>
    [] b = << "h", "t", "t", "p", "s", ":", "/", "/", "h", ":", "8", "/", "p", "?", "q" >> ->
         << "h", "t", "t", "p", "s", ":", "/", "/", "h", ":", "8", "/", "p", "?", "q" >>
    [] b = << "m", "a", "i", "l", "t", "o", ":", "a" >> ->
         << "m", "a", "i", "l", "t", "o", ":", "a" >>

\* the result for a base that parses, rule by rule; `stem` is what rule (4)
\* appends the reference to
MergedByRules(b, ref, stem) ==
  IF IsAbsolute(ref) THEN ref
  ELSE IF StartsWith(ref, << "/", "/" >>) THEN ProtocolOf(b) \o ref
  ELSE IF StartsWith(ref, << "/" >>) THEN OriginOf(b) \o ref
  ELSE IF stem[Len(stem)] = "/" THEN stem \o ref
  ELSE stem \o << "/" >> \o ref

\* C13 as stated: for a base that parses, the first matching rule applies:
\* (1) a reference starting with http:// or https:// is returned unchanged,
\* (2) one starting with // gets the scheme of the base and ':' in front,
\* (3) one starting with / gets the origin of the base in front, (4) any
\* other is appended to baseUrl, a '/' added only if baseUrl lacks one at its
\* end, with no '..' resolution.
C13_RulesOverBaseUrl ==
  (MergeCalled /\ merge.baseUrl \notin UnparsableBases)
    => merge.out = [kind |-> "return",
                    value |-> << MergedByRules(merge.baseUrl, merge.path, merge.baseUrl) >>]

\* C13, amended: rules (1) to (3) as stated; (4) any other reference is
\* appended to the href of the parsed base (scheme and host in lower case,
\* default port dropped, "/" for an empty path), a '/' added only if that
\* href lacks one at its end, with no '..' resolution.
C13_RulesOverHref ==
  (MergeCalled /\ merge.baseUrl \notin UnparsableBases)
    => merge.out = [kind |-> "return",
                    value |-> << MergedByRules(merge.baseUrl, merge.path, HrefOf(merge.baseUrl)) >>]

C13_Witness ==
  /\ merge.baseUrl = << "H", "T", "T", "P", ":", "/", "/", "H", "/", "p" >>
  /\ merge.path = << ".", ".", "/", "i" >>
  /\ merge.out = [kind |-> "return", value |-> << << "h", "t", "t", "p", ":", "/", "/", "h", "/", "p", "/", ".", ".", "/", "i" >> >>]

\* the occurrences of <digits>x<digits> in s, each as the first index of its
\* first number, the index of its 'x' and the last index of its second number
Occurrences(s) ==
  { t \in (1..Len(s)) \X (1..Len(s)) \X (1..Len(s)) :
      /\ t[1] < t[2] /\ t[2] < t[3]
      /\ \A i \in t[1]..(t[2] - 1) : IsDigit(s[i])
      /\ s[t[2]] = "x"
      /\ \A i \in (t[2] + 1)..t[3] : IsDigit(s[i])
      /\ t[3] = Len(s) \/ ~IsDigit(s[t[3] + 1]) }

\* the number a string of digits denotes
RECURSIVE NumberOf(_)
NumberOf(ds) ==
  IF Len(ds) = 0 THEN 0 ELSE DigitValue(Head(ds)) * (10 ^ (Len(ds) - 1)) + NumberOf(Tail(ds))

\* what C14 says parseSizesAttribute returns for sz
SizeOfFirstToken(sz) ==
  IF sz = None \/ sz = Some(<<>>) \/ Occurrences(Val(sz)) = {}
  THEN None
  ELSE LET s == Val(sz)
           t == CHOOSE a \in Occurrences(s) : \A b \in Occurrences(s) : a[1] <= b[1]
           first == NumberOf(SubSeq(s, t[1], t[2] - 1))
           second == NumberOf(SubSeq(s, t[2] + 1, t[3]))
       IN  IF first # second THEN None ELSE Some(first)

\* C14: parseSizesAttribute looks only at the leftmost <digits>x<digits>: it
\* returns null for null, undefined, the empty string and a string without
\* such an occurrence, null when the two numbers differ numerically, and
\* otherwise the number (016x16 gives 16); later tokens are not considered.
C14_FirstSquareToken ==
  sizes.out # NotCalled
    => sizes.out = [kind |-> "return", value |-> SizeOfFirstToken(sizes.sizes)]

\* some message of some section of the report has the status
AnyMessageIs(status) ==
  \E section \in Sections :
    \E i \in 1..Len(report[section]) : report[section][i].status = status

\* C17: starting from a report with three empty sections, after any appends
\* to any sections, reportHasErrors is true exactly when some message of some
\* section has status Error and reportHasWarnings exactly when some has
\* status Warning; both are false on the empty report, the order of the
\* messages does not matter, and asking leaves the report as it is.
C17_ReportPredicates ==
  /\ [](verdict.asked =>
          /\ verdict.hasErrors <=> AnyMessageIs("Error")
          /\ verdict.hasWarnings <=> AnyMessageIs("Warning")
          /\ report = EmptyReport => ~verdict.hasErrors /\ ~verdict.hasWarnings)
  /\ [][(~verdict.asked /\ verdict'.asked) => report' = report]_vars

C17_Witness ==
  /\ verdict = [asked |-> TRUE, hasErrors |-> TRUE, hasWarnings |-> FALSE]
  /\ report.desktop = <<>>
  /\ report.touchIcon = << [status |-> "Ok"] >>
  /\ report.webAppManifest = << [status |-> "Ok"], [status |-> "Error"] >>

====
